---- MODULE Spec2Model ----
(***************************************************************************)
(* Search / indexing subsystem of the media platform:                     *)
(*   - the authoritative media store (media_files) and its paged list API, *)
(*   - the two search adapters (PostgreSQL search_index, Elasticsearch),   *)
(*   - the Index Synchronizer (MediaEventHandler),                         *)
(*   - the Reindex orchestrator (SearchServiceImpl.reindexWithPagination)  *)
(*     and the HTTP handler that reports its outcome.                      *)
(***************************************************************************)
EXTENDS Integers, Sequences, FiniteSets, Bags, TLC

\* ------------------------------------------------------------------ bounds
\* number of media ids in the small (concurrent) specifications
MaxMedia == 2
\* number of writes to the authoritative store in one behaviour
MaxWrites == 3
\* largest store size of the pagination specification
MaxScan == 201

\* ------------------------------------------------------- program constants
batchSize == 100
DefaultPageSize == 20
MaxPageSize == 100
MaxSearchLimit == 100

StatusUploading == "uploading"
StatusReady == "ready"
StatusFailed == "failed"
StatusDeleted == "deleted"
Statuses == {StatusUploading, StatusReady, StatusFailed, StatusDeleted}

TypeVideo == "video"
TypePodcast == "podcast"

\* input values of the requests
Titles == {"Go Basics", "Go Advanced"}
Descriptions == {"intro"}
Types == {TypeVideo}
Procs == {1, 2}
Backends == {"postgres", "elasticsearch"}

VARIABLES
    backend,    \* the adapter selected at startup
    media,      \* media_files: sequence of [m, deleted] in creation order
    nWrites,    \* writes made to media_files so far
    pgIndex,    \* committed rows of search_index
    pgLock,     \* holder of the ACCESS EXCLUSIVE lock taken by TRUNCATE, 0 = free
    esDocs,     \* documents of the Elasticsearch index (bag)
    esVisible,  \* documents visible to search as of the last refresh (bag)
    last,       \* outcome of the last MediaEventHandler call
    rx,         \* per Reindex invocation: position and locals
    sr          \* outcome of the last Search or Suggest call

vars == <<backend, media, nWrites, pgIndex, pgLock, esDocs, esVisible, last, rx, sr>>

\* ------------------------------------------------------------ domain.Media
CanBeSearched(m) == m.status = StatusReady

ToMedia(id, t, d, ty) ==
    [id |-> id, title |-> t, description |-> d, type |-> ty, status |-> StatusUploading]

ApplyTo(m, t) == [m EXCEPT !.title = t]

\* ------------------------------------------- postgresMediaRepository (CMS)
\* rows a query sees: gorm adds "deleted_at IS NULL"
NotDeleted(row) == ~row.deleted
LiveRows(tbl) == SelectSeq(tbl, NotDeleted)

Reverse(s) == [k \in 1..Len(s) |-> s[Len(s) + 1 - k]]

\* ORDER BY created_at DESC LIMIT limit OFFSET offset
GetAll(tbl, limit, offset) ==
    LET live == Reverse(LiveRows(tbl))
        from == offset + 1
        to   == IF offset + limit < Len(live) THEN offset + limit ELSE Len(live)
    IN  [k \in 1..(IF to >= from THEN to - from + 1 ELSE 0) |-> live[from + k - 1].m]

GetTotal(tbl) == Len(LiveRows(tbl))

LiveIds(tbl) == {tbl[k].m.id : k \in {j \in 1..Len(tbl) : ~tbl[j].deleted}}
DeletedIds(tbl) == {tbl[k].m.id : k \in {j \in 1..Len(tbl) : tbl[j].deleted}}

GetByID(tbl, id) == (CHOOSE k \in 1..Len(tbl) : tbl[k].m.id = id /\ ~tbl[k].deleted)

RepoUpdateStatus(tbl, id, s) ==
    [k \in 1..Len(tbl) |->
        IF tbl[k].m.id = id /\ ~tbl[k].deleted
        THEN [tbl[k] EXCEPT !.m.status = s] ELSE tbl[k]]

RepoUpdate(tbl, m) ==
    [k \in 1..Len(tbl) |->
        IF tbl[k].m.id = m.id /\ ~tbl[k].deleted
        THEN [tbl[k] EXCEPT !.m = m] ELSE tbl[k]]

RepoDelete(tbl, id) ==
    [k \in 1..Len(tbl) |->
        IF tbl[k].m.id = id /\ ~tbl[k].deleted
        THEN [tbl[k] EXCEPT !.deleted = TRUE] ELSE tbl[k]]

\* mediaService.GetAllMedia behind MediaHandler.GetAllMedia: the list API
NormLimit(limit) == IF limit <= 0 \/ limit > MaxPageSize THEN DefaultPageSize ELSE limit
NormOffset(offset) == IF offset < 0 THEN 0 ELSE offset

GetAllMedia(tbl, limit, offset) ==
    [items |-> GetAll(tbl, NormLimit(limit), NormOffset(offset)),
     total |-> GetTotal(tbl)]

\* ------------------------------------------------- PostgresSearchRepository
\* domain.SearchIndex built in IndexMedia and in ReindexAll
SearchIndexRow(m) ==
    [id |-> m.id, media_id |-> m.id, title |-> m.title,
     description |-> m.description,
     content |-> m.title \o " " \o m.description, type |-> m.type]

\* an insert that leaves the row alone when the id is present
PgSaveIgnore(tbl, row) ==
    IF \E r \in tbl : r.id = row.id THEN tbl ELSE tbl \cup {row}

\* gorm Save with a primary key: UPDATE the row, INSERT when none was updated
PgSave(tbl, row) ==
    IF \E r \in tbl : r.id = row.id
    THEN {r \in tbl : r.id # row.id} \cup {row}
    ELSE tbl \cup {row}

\* gorm Create: INSERT, refused by the primary key when the id is present
PgCreateOk(tbl, row) == ~(\E r \in tbl : r.id = row.id)
PgCreate(tbl, row) == tbl \cup {row}

PgIndexMedia(tbl, m) == PgSave(tbl, SearchIndexRow(m))

\* DELETE FROM search_index WHERE media_id = ?
PgRemoveFromIndex(tbl, id) == {r \in tbl : r.media_id # id}

\* ---------------------------------------------- ElasticsearchSearchRepository
mediaToDocument(m) ==
    [id |-> m.id, title |-> m.title, description |-> m.description,
     content |-> m.title \o " " \o m.description, type |-> m.type,
     status |-> m.status]

\* a stored document: the engine's _id and the _source that was sent
EsDoc(id, doc) == [_id |-> id, source |-> doc]

EsWithId(docs, id) == {d \in BagToSet(docs) : d._id = id}
EsWithoutId(docs, id) ==
    [d \in {e \in BagToSet(docs) : e._id # id} |-> docs[d]]

\* an index request without the document id adds a document every time
IndexDocumentAppend(docs, id, doc) == docs (+) SetToBag({EsDoc(id, doc)})

\* index request with an explicit document id: create or overwrite that id
IndexDocument(docs, id, doc) == EsWithoutId(docs, id) (+) SetToBag({EsDoc(id, doc)})

\* delete request: the document with that id is removed
DeleteDocument(docs, id) == EsWithoutId(docs, id)

\* the HTTP status of a delete request; reachable is whether the engine answered
DeleteStatus(docs, id, reachable) ==
    IF ~reachable THEN 503
    ELSE IF EsWithId(docs, id) = {} THEN 404 ELSE 200

\* res.IsError(): a status above 299
IsError(status) == status > 299

\* a client that reports every error status, the 404 of an absent id included
DeleteDocumentErrorStrict(status) == IsError(status)

\* DeleteDocument returns an error for an error status other than 404
DeleteDocumentError(status) == IsError(status) /\ status # 404

EsIndexMedia(docs, m) == IndexDocument(docs, m.id, mediaToDocument(m))

EsRemoveFromIndex(docs, id) == DeleteDocument(docs, id)

\* delete-by-query match_all
ClearIndex(docs) == EmptyBag

\* a bulk request that rebuilds the index keeps only its own items
BulkIndexOnly(docs, items, rejected) ==
    SetToBag({EsDoc(items[k].id, mediaToDocument(items[k])) :
                k \in {j \in 1..Len(items) : items[j].id \notin rejected}})

\* one bulk request: the index actions in list order, an item the engine
\* rejects is skipped
BulkIndex(docs, items, rejected) ==
    LET accepted == {k \in 1..Len(items) : items[k].id \notin rejected}
        ids == {items[k].id : k \in accepted}
        lastOf(id) == CHOOSE k \in accepted :
                        /\ items[k].id = id
                        /\ \A j \in accepted : items[j].id = id => j <= k
        kept == {d \in BagToSet(docs) : d._id \notin ids}
    IN  [d \in kept |-> docs[d]]
        (+) SetToBag({EsDoc(id, mediaToDocument(items[lastOf(id)])) : id \in ids})

\* ------------------------------------------------- the active adapter's index
IndexIds ==
    IF backend = "postgres" THEN {r.media_id : r \in pgIndex}
    ELSE {d._id : d \in BagToSet(esDocs)}

\* number of documents stored under an id
IndexCount(id) ==
    IF backend = "postgres" THEN Cardinality({r \in pgIndex : r.media_id = id})
    ELSE BagCardinality([d \in EsWithId(esDocs, id) |-> esDocs[d]])

\* the searchable fields stored under an id
IndexEntries(id) ==
    IF backend = "postgres"
    THEN {[title |-> r.title, description |-> r.description,
           content |-> r.content, type |-> r.type] : r \in {x \in pgIndex : x.media_id = id}}
    ELSE {[title |-> d.source.title, description |-> d.source.description,
           content |-> d.source.content, type |-> d.source.type] : d \in EsWithId(esDocs, id)}

\* ------------------------------------------------------ error values
\* nil
NoError == [kind |-> "nil", code |-> "", msg |-> "", cause |-> ""]

\* &domain.BusinessError{Code, Message}
BusinessError(code, msg) == [kind |-> "business", code |-> code, msg |-> msg, cause |-> ""]

\* fmt.Errorf with %v: the message is kept, the cause cannot be unwrapped
WrapOpaque(msg, cause) ==
    [kind |-> "wrapped", code |-> "", msg |-> msg \o ": " \o cause, cause |-> ""]

\* fmt.Errorf("...: %w", err): errors.Unwrap gives the cause back
Wrap(msg, cause) ==
    [kind |-> "wrapped", code |-> "", msg |-> msg \o ": " \o cause, cause |-> cause]

\* no Search or Suggest call has been made
NoSearch == [op |-> "none"]

\* ------------------------------------------------------ MediaEventHandler
NoCall == [op |-> "none", id |-> 0, calls |-> <<>>, adapterOk |-> TRUE,
           err |-> FALSE, repeat |-> FALSE]

\* a handler that only logs the failure returns nil
HandlerSwallow(adapterErr) == FALSE

\* what the handler returns for the error its adapter call returned
HandlerReturn(adapterErr) == adapterErr

\* the adapter call HandleMediaCreated and HandleMediaUpdated make
UpsertCall(m) == "IndexMedia"

\* an index request without refresh: search sees the write after the next
\* periodic refresh
IndexNoRefresh(visible, docs) == visible

\* IndexDocument sets Refresh "true": the write is searchable when it returns
IndexRefresh(visible, docs) == docs

\* IndexMedia of the active adapter; ok is whether the store accepted the write
IndexMediaStep(m, ok) ==
    /\ IF backend = "postgres"
       THEN /\ pgLock = 0
            /\ pgIndex' = IF ok THEN PgIndexMedia(pgIndex, m) ELSE pgIndex
            /\ UNCHANGED <<esDocs, esVisible>>
       ELSE /\ esDocs' = IF ok THEN EsIndexMedia(esDocs, m) ELSE esDocs
            /\ esVisible' = IF ok THEN IndexRefresh(esVisible, esDocs') ELSE esVisible
            /\ UNCHANGED pgIndex
    /\ UNCHANGED pgLock

\* whether RemoveFromIndex of the active adapter returns an error; ok is
\* whether the store answered the request
RemoveFromIndexErr(id, ok) ==
    IF backend = "postgres" THEN ~ok
    ELSE DeleteDocumentError(DeleteStatus(esDocs, id, ok))

\* RemoveFromIndex of the active adapter
RemoveFromIndexStep(id, ok) ==
    /\ IF backend = "postgres"
       THEN /\ pgLock = 0
            /\ pgIndex' = IF ok THEN PgRemoveFromIndex(pgIndex, id) ELSE pgIndex
            /\ UNCHANGED <<esDocs, esVisible>>
       ELSE /\ esDocs' = IF ~RemoveFromIndexErr(id, ok)
                         THEN EsRemoveFromIndex(esDocs, id) ELSE esDocs
            /\ esVisible' = esDocs'
            /\ UNCHANGED pgIndex
    /\ UNCHANGED pgLock

\* the index already holds exactly the entry this media would be written as
AlreadyIndexed(m) ==
    /\ IndexCount(m.id) = 1
    /\ IndexEntries(m.id) = {[title |-> m.title, description |-> m.description,
                              content |-> m.title \o " " \o m.description,
                              type |-> m.type]}

HandleUpsertEvent(op, m, ok) ==
    /\ IF UpsertCall(m) = "IndexMedia"
       THEN IndexMediaStep(m, ok)
       ELSE RemoveFromIndexStep(m.id, ok)
    /\ last' = [op |-> op, id |-> m.id, calls |-> <<UpsertCall(m)>>,
                adapterOk |-> ok, err |-> HandlerReturn(~ok),
                repeat |-> AlreadyIndexed(m)]
    /\ sr' = NoSearch
    /\ rx' = [p \in Procs |->
                IF /\ rx[p].pc = "replace" /\ ok
                   /\ UpsertCall(m) = "IndexMedia" /\ m.status = StatusReady
                THEN [rx[p] EXCEPT !.upserted = @ \cup {m.id}]
                ELSE rx[p]]
    /\ UNCHANGED <<backend, media, nWrites>>

\* the events carry the record as the store holds it now (in-order delivery)
HandleMediaCreated ==
    \E k \in 1..Len(media), ok \in BOOLEAN :
        /\ ~media[k].deleted
        /\ HandleUpsertEvent("created", media[k].m, ok)

HandleMediaUpdated ==
    \E k \in 1..Len(media), ok \in BOOLEAN :
        /\ ~media[k].deleted
        /\ HandleUpsertEvent("updated", media[k].m, ok)

HandleMediaDeleted ==
    \E id \in DeletedIds(media), ok \in BOOLEAN :
        /\ RemoveFromIndexStep(id, ok)
        /\ last' = [op |-> "deleted", id |-> id, calls |-> <<"RemoveFromIndex">>,
                    adapterOk |-> ~RemoveFromIndexErr(id, ok),
                    err |-> HandlerReturn(RemoveFromIndexErr(id, ok)),
                    repeat |-> id \notin IndexIds]
        /\ sr' = NoSearch
        /\ UNCHANGED <<backend, media, nWrites, rx>>

\* ------------------------------------------------ mediaService (CMS writes)
\* mediaService.CreateUploadURL: the record is created with status uploading
CreateMedia(t, d, ty, cap) ==
    /\ Len(media) < cap
    /\ nWrites < MaxWrites
    /\ media' = Append(media, [m |-> ToMedia(Len(media) + 1, t, d, ty),
                               deleted |-> FALSE])
    /\ nWrites' = nWrites + 1
    /\ last' = NoCall
    /\ sr' = NoSearch
    /\ UNCHANGED <<backend, pgIndex, pgLock, esDocs, esVisible, rx>>

CreateUploadURL ==
    \E t \in Titles, d \in Descriptions, ty \in Types : CreateMedia(t, d, ty, MaxMedia)

\* a check that only refuses the record that is already ready
ConfirmAllowedNotReady(status) == status # StatusReady

\* "Check if media is in uploading state"
ConfirmAllowed(status) == status = StatusUploading

\* mediaService.ConfirmUpload on the store tbl: the error it returns ("" for nil)
\* and the store it leaves; validateUploadedFile returns nil; ok is whether the
\* store accepted the UpdateStatus
ConfirmOutcome(tbl, id, ok) ==
    IF id \notin LiveIds(tbl)
    THEN [code |-> "media not found", tbl |-> tbl]
    ELSE IF ~ConfirmAllowed(tbl[GetByID(tbl, id)].m.status)
    THEN [code |-> "INVALID_STATUS", tbl |-> tbl]
    ELSE IF ~ok
    THEN [code |-> "failed to update media status", tbl |-> tbl]
    ELSE [code |-> "", tbl |-> RepoUpdateStatus(tbl, id, StatusReady)]

ConfirmUploadCall(id, ok) ==
    /\ ConfirmOutcome(media, id, ok).code = "" => nWrites < MaxWrites
    /\ media' = ConfirmOutcome(media, id, ok).tbl
    /\ nWrites' = IF ConfirmOutcome(media, id, ok).code = "" THEN nWrites + 1 ELSE nWrites
    /\ last' = [op |-> "confirm", id |-> id, calls |-> <<>>, adapterOk |-> TRUE,
            err |-> ConfirmOutcome(media, id, ok).code # "", repeat |-> FALSE,
            code |-> ConfirmOutcome(media, id, ok).code]
    /\ sr' = NoSearch
    /\ UNCHANGED <<backend, pgIndex, pgLock, esDocs, esVisible, rx>>

\* any id, known to the store or not
ConfirmUpload ==
    \E id \in 1..(Len(media) + 1), ok \in BOOLEAN : ConfirmUploadCall(id, ok)

\* the calls for a record that is uploading, with a store that accepts the write
ConfirmUploaded ==
    \E id \in LiveIds(media) :
        /\ media[GetByID(media, id)].m.status = StatusUploading
        /\ ConfirmUploadCall(id, TRUE)

\* postgresMediaRepository.UpdateStatus, the write behind every status change
UpdateStatus ==
    \E id \in LiveIds(media), s \in Statuses :
        /\ nWrites < MaxWrites
        /\ media[GetByID(media, id)].m.status # s
        /\ media' = RepoUpdateStatus(media, id, s)
        /\ nWrites' = nWrites + 1
        /\ last' = NoCall
        /\ sr' = NoSearch
        /\ UNCHANGED <<backend, pgIndex, pgLock, esDocs, esVisible, rx>>

UpdateMedia ==
    \E id \in LiveIds(media), t \in Titles :
        /\ nWrites < MaxWrites
        /\ media[GetByID(media, id)].m.title # t
        /\ media' = RepoUpdate(media, ApplyTo(media[GetByID(media, id)].m, t))
        /\ nWrites' = nWrites + 1
        /\ last' = NoCall
        /\ sr' = NoSearch
        /\ UNCHANGED <<backend, pgIndex, pgLock, esDocs, esVisible, rx>>

DeleteMedia ==
    \E id \in LiveIds(media) :
        /\ nWrites < MaxWrites
        /\ media' = RepoDelete(media, id)
        /\ nWrites' = nWrites + 1
        /\ last' = NoCall
        /\ sr' = NoSearch
        /\ UNCHANGED <<backend, pgIndex, pgLock, esDocs, esVisible, rx>>

\* --------------------------------------------------------------- Reindex
IdleRx == [pc |-> "idle", offset |-> 0, allMedia |-> <<>>, cancelled |-> FALSE,
           tx |-> {}, i |-> 0, cleared |-> FALSE, rejected |-> {},
           fetchFailed |-> FALSE, reindexAllCalls |-> 0,
           firstTotal |-> 0, lastTotal |-> 0, lastItems |-> 0,
           fetches |-> 0, maxTotal |-> 0, upserted |-> {},
           err |-> "", resp |-> [status |-> 0, error |-> "", message |-> "", details |-> ""]]

InitSync ==
    /\ backend \in Backends
    /\ media = <<>>
    /\ nWrites = 0
    /\ pgIndex = {}
    /\ pgLock = 0
    /\ esDocs = EmptyBag
    /\ esVisible = EmptyBag
    /\ last = NoCall
    /\ rx = [p \in Procs |-> IdleRx]
    /\ sr = NoSearch

NextSync ==
    \/ CreateUploadURL
    \/ ConfirmUpload
    \/ UpdateStatus
    \/ UpdateMedia
    \/ DeleteMedia
    \/ HandleMediaCreated
    \/ HandleMediaUpdated
    \/ HandleMediaDeleted

\* the store and the Index Synchronizer
SpecSync == InitSync /\ [][NextSync]_vars

\* SearchHandler.Reindex: the response written for the error Reindex returned
ReindexResponse(err) ==
    IF err = ""
    THEN [status |-> 200, error |-> "",
          message |-> "Search index rebuilt successfully", details |-> ""]
    ELSE [status |-> 500, error |-> "INTERNAL_ERROR",
          message |-> "Reindex failed", details |-> err]

\* the invocation returns err to the handler
Return(r, err) == [r EXCEPT !.pc = "done", !.err = err, !.resp = ReindexResponse(err)]

\* a loop that leaves with break on a failed fetch goes on to ReindexAll
AfterFetchErrorBreak(r, err) == [r EXCEPT !.pc = "replace"]

\* reindexWithPagination: cmsClient.Get or json.Unmarshal returned an error
AfterFetchError(r, err) == Return(r, err)

\* a loop that tests for the short page before it appends drops the last page
AfterPageShortDropped(r, page) ==
    IF Len(page.items) < batchSize
    THEN [r EXCEPT !.pc = "replace"]
    ELSE IF r.offset + batchSize > page.total
         THEN [r EXCEPT !.allMedia = r.allMedia \o page.items,
                        !.offset = r.offset + batchSize, !.pc = "replace"]
         ELSE [r EXCEPT !.allMedia = r.allMedia \o page.items,
                        !.offset = r.offset + batchSize]

\* a loop that remembers the total of the page at offset 0 and tests against it
AfterPageFirstTotal(r, page) ==
    LET all == r.allMedia \o page.items
    IN  IF Len(page.items) < batchSize
        THEN [r EXCEPT !.allMedia = all, !.pc = "replace"]
        ELSE IF r.offset + batchSize > r.firstTotal
             THEN [r EXCEPT !.allMedia = all, !.offset = r.offset + batchSize,
                            !.pc = "replace"]
             ELSE [r EXCEPT !.allMedia = all, !.offset = r.offset + batchSize]

\* cmsResponse as json.Unmarshal filled it: what the iteration saw, and what the
\* iteration at offset 0 saw
Parsed(r, page) ==
    [r EXCEPT !.firstTotal = IF r.offset = 0 THEN page.total ELSE @,
              !.lastTotal = page.total,
              !.lastItems = Len(page.items),
              !.maxTotal = IF page.total > @ THEN page.total ELSE @]

\* a loop that ends on a short page only
AfterPageNoStop(r, page) ==
    LET all == r.allMedia \o page.items
    IN  IF Len(page.items) < batchSize
        THEN [r EXCEPT !.allMedia = all, !.pc = "replace"]
        ELSE [r EXCEPT !.allMedia = all, !.offset = r.offset + batchSize]

\* reindexWithPagination: the loop body after a page was fetched and parsed
AfterPage(r, page) ==
    LET all == r.allMedia \o page.items
    IN  IF Len(page.items) < batchSize
        THEN [r EXCEPT !.allMedia = all, !.pc = "replace"]
        ELSE IF r.offset + batchSize > page.total
             THEN [r EXCEPT !.allMedia = all, !.offset = r.offset + batchSize,
                            !.pc = "replace"]
             ELSE [r EXCEPT !.allMedia = all, !.offset = r.offset + batchSize]

\* POST /api/v1/search/reindex is accepted: the invocation starts
Reindex(p) ==
    /\ rx[p].pc = "idle"
    /\ rx' = [rx EXCEPT ![p] = [IdleRx EXCEPT !.pc = "fetch"]]
    /\ last' = NoCall
    /\ sr' = NoSearch
    /\ UNCHANGED <<backend, media, nWrites, pgIndex, pgLock, esDocs, esVisible>>

\* the caller's context is cancelled while the invocation runs
Cancel(p) ==
    /\ rx[p].pc \in {"fetch", "replace", "tx", "bulk"}
    /\ ~rx[p].cancelled
    /\ rx' = [rx EXCEPT ![p].cancelled = TRUE]
    /\ last' = NoCall
    /\ sr' = NoSearch
    /\ UNCHANGED <<backend, media, nWrites, pgIndex, pgLock, esDocs, esVisible>>

\* one iteration of the loop: GET /api/v1/media?limit=100&offset=..., parse, append;
\* cmsClient.Get returns an error or a body, with or without a cancelled context
\* the store of the pagination specification: n records, newest first in the API
ScanStatus(k) ==
    IF k % 4 = 0 THEN StatusReady
    ELSE IF k % 4 = 1 THEN StatusUploading
    ELSE IF k % 4 = 2 THEN StatusReady
    ELSE StatusFailed

ScanStore(n) ==
    [k \in 1..n |-> [m |-> [id |-> k, title |-> "Go Basics", description |-> "intro",
                            type |-> TypeVideo, status |-> ScanStatus(k)],
                     deleted |-> FALSE]]

\* responses are the bodies the metadata API can answer this request with
FetchPageFrom(p, responses) ==
    /\ rx[p].pc = "fetch"
    /\ \E outcome \in {"ok", "fetch", "parse"}, page \in responses :
        LET r == [rx[p] EXCEPT !.fetches = @ + 1]
        IN  rx' = [rx EXCEPT ![p] =
                IF outcome = "fetch"
                THEN AfterFetchError([r EXCEPT !.fetchFailed = TRUE],
                                     "failed to fetch media from CMS service")
                ELSE IF outcome = "parse"
                THEN AfterFetchError([r EXCEPT !.fetchFailed = TRUE],
                                     "failed to parse CMS response")
                ELSE AfterPage(Parsed(r, page), page)]
    /\ last' = NoCall
    /\ sr' = NoSearch
    /\ UNCHANGED <<backend, media, nWrites, pgIndex, pgLock, esDocs, esVisible>>

\* the metadata API is the CMS service of this repository
FetchPage(p) == FetchPageFrom(p, {GetAllMedia(media, batchSize, rx[p].offset)})

\* any metadata API: a full page, a page of one item or an empty page of records
\* numbered from the offset, with any total
ApiResponses(offset) ==
    {[items |-> [k \in 1..n |-> ScanStore(offset + n)[offset + k].m], total |-> t] :
        n \in {0, 1, batchSize},
        t \in {0, batchSize - 1, batchSize, 2 * batchSize - 1, 2 * batchSize}}

FetchPageAny(p) == FetchPageFrom(p, ApiResponses(rx[p].offset))

\* --- PostgresSearchRepository.ReindexAll
\* a TRUNCATE issued on the connection instead of the transaction commits at once
TxTruncateAutocommit(committed) == [committed |-> {}, working |-> {}]

\* a transaction that inserts on top of the rows it found
TxNoTruncate(committed) == [committed |-> committed, working |-> committed]

\* TRUNCATE inside the transaction: the committed rows stay, the work is empty
TxTruncate(committed) == [committed |-> committed, working |-> {}]

\* Begin and TRUNCATE search_index (waits for the table lock)
PgTruncate(p) ==
    /\ backend = "postgres"
    /\ rx[p].pc = "replace"
    /\ pgLock = 0
    /\ \E ok \in BOOLEAN :
        IF ok /\ ~rx[p].cancelled
        THEN /\ pgIndex' = TxTruncate(pgIndex).committed
             /\ pgLock' = p
             /\ rx' = [rx EXCEPT ![p].pc = "tx", ![p].i = 1,
                                 ![p].tx = TxTruncate(pgIndex).working,
                                 ![p].reindexAllCalls = rx[p].reindexAllCalls + 1]
        ELSE /\ rx' = [rx EXCEPT ![p] =
                    Return([rx[p] EXCEPT !.reindexAllCalls = rx[p].reindexAllCalls + 1],
                           "failed to clear search index")]
             /\ UNCHANGED <<pgIndex, pgLock>>
    /\ last' = NoCall
    /\ sr' = NoSearch
    /\ UNCHANGED <<backend, media, nWrites, esDocs, esVisible>>

\* tx.Create of the next row; an error rolls the transaction back
PgInsert(p) ==
    /\ backend = "postgres"
    /\ rx[p].pc = "tx"
    /\ rx[p].i <= Len(rx[p].allMedia)
    /\ LET row == SearchIndexRow(rx[p].allMedia[rx[p].i])
       IN  \E ok \in BOOLEAN :
            IF ok /\ ~rx[p].cancelled /\ PgCreateOk(rx[p].tx, row)
            THEN /\ rx' = [rx EXCEPT ![p].tx = PgCreate(rx[p].tx, row),
                                     ![p].i = rx[p].i + 1]
                 /\ UNCHANGED pgLock
            ELSE /\ rx' = [rx EXCEPT ![p] = Return([rx[p] EXCEPT !.tx = {}],
                                                   "failed to index media")]
                 /\ pgLock' = 0
    /\ last' = NoCall
    /\ sr' = NoSearch
    /\ UNCHANGED <<backend, media, nWrites, pgIndex, esDocs, esVisible>>

\* tx.Commit: the work becomes the committed rows, or the commit fails
PgCommit(p) ==
    /\ backend = "postgres"
    /\ rx[p].pc = "tx"
    /\ rx[p].i > Len(rx[p].allMedia)
    /\ \E ok \in BOOLEAN :
        IF ok /\ ~rx[p].cancelled
        THEN /\ pgIndex' = rx[p].tx
             /\ rx' = [rx EXCEPT ![p] = Return([rx[p] EXCEPT !.tx = {}], "")]
        ELSE /\ rx' = [rx EXCEPT ![p] = Return([rx[p] EXCEPT !.tx = {}], "commit failed")]
             /\ UNCHANGED pgIndex
    /\ pgLock' = 0
    /\ last' = NoCall
    /\ sr' = NoSearch
    /\ UNCHANGED <<backend, media, nWrites, esDocs, esVisible>>

\* --- ElasticsearchSearchRepository.ReindexAll
\* the items of one bulk request the engine may refuse
RejectChoices(items) ==
    {{}} \cup {{items[k].id} : k \in {j \in {1, Len(items)} : j <= Len(items)}}

\* client.ClearIndex, and the early return for an empty list
EsClear(p) ==
    /\ backend = "elasticsearch"
    /\ rx[p].pc = "replace"
    /\ \E ok \in BOOLEAN :
        IF ok /\ ~rx[p].cancelled
        THEN /\ esDocs' = ClearIndex(esDocs)
             /\ rx' = [rx EXCEPT ![p] =
                    IF Len(rx[p].allMedia) = 0
                    THEN Return([rx[p] EXCEPT !.cleared = TRUE,
                                              !.reindexAllCalls = rx[p].reindexAllCalls + 1], "")
                    ELSE [rx[p] EXCEPT !.cleared = TRUE, !.pc = "bulk",
                                       !.reindexAllCalls = rx[p].reindexAllCalls + 1]]
        ELSE /\ rx' = [rx EXCEPT ![p] =
                    Return([rx[p] EXCEPT !.reindexAllCalls = rx[p].reindexAllCalls + 1],
                           "failed to clear index")]
             /\ UNCHANGED esDocs
    /\ last' = NoCall
    /\ sr' = NoSearch
    /\ UNCHANGED <<backend, media, nWrites, pgIndex, pgLock, esVisible>>

\* client.BulkIndex with refresh
EsBulk(p) ==
    /\ backend = "elasticsearch"
    /\ rx[p].pc = "bulk"
    /\ \E ok \in BOOLEAN, rej \in RejectChoices(rx[p].allMedia) :
        IF ok /\ ~rx[p].cancelled
        THEN /\ esDocs' = BulkIndex(esDocs, rx[p].allMedia, rej)
             /\ esVisible' = esDocs'
             /\ rx' = [rx EXCEPT ![p] = Return([rx[p] EXCEPT !.rejected = rej], "")]
        ELSE /\ rej = {}
             /\ rx' = [rx EXCEPT ![p] = Return(rx[p], "failed to bulk index media")]
             /\ UNCHANGED <<esDocs, esVisible>>
    /\ last' = NoCall
    /\ sr' = NoSearch
    /\ UNCHANGED <<backend, media, nWrites, pgIndex, pgLock>>

\* the engine's periodic refresh makes the writes so far visible to search
EsRefresh ==
    /\ backend = "elasticsearch"
    /\ esVisible # esDocs
    /\ esVisible' = esDocs
    /\ last' = NoCall
    /\ sr' = NoSearch
    /\ UNCHANGED <<backend, media, nWrites, pgIndex, pgLock, esDocs, rx>>

\* ------------------------------------------------------- text analysis
\* the lower-cased words of the texts the requests of this model carry
BaseWords(s) ==
    CASE s = "Go Basics" -> <<"go", "basics">>
      [] s = "Go Advanced" -> <<"go", "advanced">>
      [] s = "intro" -> <<"intro">>
      [] OTHER -> <<>>

\* the words of a stored text: a title, a description, or the content
\* title + " " + description
Analyze(s) ==
    LET pairs == {x \in Titles \X Descriptions : s = x[1] \o " " \o x[2]}
    IN  IF pairs = {} THEN BaseWords(s)
        ELSE LET td == CHOOSE x \in pairs : TRUE
             IN  BaseWords(td[1]) \o BaseWords(td[2])

WordSet(s) == LET w == Analyze(s) IN {w[k] : k \in 1..Len(w)}

\* a query text is a sequence of pieces, each a word or a space " "; the empty
\* string is <<>>
QueryWords(q) == {q[k] : k \in {j \in 1..Len(q) : q[j] # " "}}

\* the query texts of the requests
Queries == {<<>>, <<" ">>, <<"go">>, <<"basics">>, <<"go", " ", "advanced">>, <<"rust">>}
TypeFilters == {"", TypeVideo, TypePodcast}
Limits == {-1, 0, 1, 101}
Offsets == {-1, 0, 1}

\* the requests: every query text, every type filter, every paging
SearchRequests ==
    {[query |-> q, type |-> ty, limit |-> 20, offset |-> 0] :
        q \in Queries, ty \in {""}}
    \cup {[query |-> <<"go">>, type |-> ty, limit |-> 20, offset |-> 0] : ty \in TypeFilters}
    \cup {[query |-> <<"go">>, type |-> "", limit |-> l, offset |-> 0] : l \in Limits}
    \cup {[query |-> <<"go">>, type |-> "", limit |-> l, offset |-> o] :
            l \in {0, 1}, o \in Offsets}

\* a call: the request and the step of the adapter that fails, if any
SearchCalls ==
    {[req |-> r, fail |-> "none"] : r \in SearchRequests}
    \cup {[req |-> [query |-> <<"go">>, type |-> "", limit |-> 0, offset |-> -1],
           fail |-> f] : f \in {"count", "find"}}

\* the orders a result list can come back in: rows of equal rank have no
\* specified order
Orderings(S) ==
    {f \in [1..Cardinality(S) -> S] : \A i, j \in 1..Cardinality(S) : f[i] = f[j] => i = j}

\* a query without LIMIT / size returns every match
PageAll(seq, limit, offset) == seq

\* LIMIT limit OFFSET offset / size, from
Page(seq, limit, offset) ==
    LET from == offset + 1
        to   == IF offset + limit < Len(seq) THEN offset + limit ELSE Len(seq)
    IN  [k \in 1..(IF to >= from THEN to - from + 1 ELSE 0) |-> seq[from + k - 1]]

\* the elements of seq that are in S, in the order of seq
Keep(seq, S) == SelectSeq(seq, LAMBDA x : x \in S)

\* ------------------------------------------- PostgresSearchRepository.Search
\* to_tsvector(content) @@ plainto_tsquery(query): every word of the query is a
\* word of the content, and a query without words matches nothing
PgMatches(row, req) ==
    /\ req.query # <<>> =>
            /\ QueryWords(req.query) # {}
            /\ QueryWords(req.query) \subseteq WordSet(row.content)
    /\ req.type # "" => row.type = req.type

PgSearch(tbl, req, fail, ord) ==
    LET matching == {r.media_id : r \in {x \in tbl : PgMatches(x, req)}}
        limit == IF req.limit <= 0 THEN 20 ELSE req.limit
        offset == IF req.offset < 0 THEN 0 ELSE req.offset
    IN  IF fail = "count"
        THEN [err |-> "failed to count search results", results |-> <<>>, total |-> 0,
              matched |-> {}]
        ELSE IF fail = "find"
        THEN [err |-> "failed to search", results |-> <<>>, total |-> 0, matched |-> {}]
        ELSE [err |-> "", results |-> Page(Keep(ord, matching), limit, offset),
              total |-> Cardinality({x \in tbl : PgMatches(x, req)}),
              matched |-> matching]

\* -------------------------------------- ElasticsearchSearchRepository.Search
\* bool query: multi_match over title, description and content (any word of the
\* query in any of the fields), match_all without a query text; term filter on type
EsMatches(src, req) ==
    /\ req.query # <<>> =>
            QueryWords(req.query) \cap
                (WordSet(src.title) \cup WordSet(src.description) \cup WordSet(src.content)) # {}
    /\ req.type # "" => src.type = req.type

EsSearch(docs, req, fail, ord) ==
    LET hits == {d \in BagToSet(docs) : EsMatches(d.source, req)}
        matching == {d._id : d \in hits}
    IN  IF fail # "none"
        THEN [err |-> "elasticsearch search failed", results |-> <<>>, total |-> 0,
              matched |-> {}]
        ELSE [err |-> "", results |-> Page(Keep(ord, matching), req.limit, req.offset),
              total |-> BagCardinality([d \in hits |-> docs[d]]),
              matched |-> matching]

RepoSearch(req, fail, ord) ==
    IF backend = "postgres" THEN PgSearch(pgIndex, req, fail, ord)
    ELSE EsSearch(esVisible, req, fail, ord)

\* ------------------------------------------------- SearchServiceImpl.Search
NoResponse == [nil |-> TRUE]

\* a facade that passes the paging on as it came
SearchDefaultsNone(req) == req

\* "Set defaults"
SearchDefaults(req) ==
    [req EXCEPT !.limit = IF @ <= 0 THEN 20 ELSE @,
                !.offset = IF @ < 0 THEN 0 ELSE @]

\* a facade without the validation
SearchNeverInvalid(req) == FALSE

\* the request is refused before the adapter is called
SearchInvalid(req) == req.query = <<>>

SearchService(req, fail, ord) ==
    IF SearchInvalid(req)
    THEN [op |-> "search", req |-> req, calls |-> <<>>, resp |-> NoResponse,
          err |-> BusinessError("INVALID_SEARCH_QUERY", "Search query cannot be empty"),
          adapterErr |-> "", matched |-> {}]
    ELSE LET n == SearchDefaults(req)
             a == RepoSearch(n, fail, ord)
         IN  IF a.err # ""
             THEN [op |-> "search", req |-> req, calls |-> <<n>>, resp |-> NoResponse,
                   err |-> Wrap("search failed", a.err),
                   adapterErr |-> a.err, matched |-> {}]
             ELSE [op |-> "search", req |-> req, calls |-> <<n>>,
                   resp |-> [results |-> a.results, total |-> a.total,
                             query |-> n.query, limit |-> n.limit, offset |-> n.offset],
                   err |-> NoError, adapterErr |-> "", matched |-> a.matched]

\* the ids of the records the store holds with status ready
ReadyIds(tbl) ==
    {tbl[k].m.id : k \in {j \in 1..Len(tbl) :
                            ~tbl[j].deleted /\ tbl[j].m.status = StatusReady}}

\* the ids the request matches in the index the active adapter searches
MatchingIds(req) ==
    IF backend = "postgres" THEN {r.media_id : r \in {x \in pgIndex : PgMatches(x, req)}}
    ELSE {d._id : d \in {x \in BagToSet(esVisible) : EsMatches(x.source, req)}}

Search ==
    \E c \in SearchCalls : \E ord \in Orderings(MatchingIds(c.req)) :
        /\ backend = "postgres" => pgLock = 0
        /\ sr' = SearchService(c.req, c.fail, ord)
        /\ last' = NoCall
        /\ UNCHANGED <<backend, media, nWrites, pgIndex, pgLock, esDocs, esVisible, rx>>

\* ------------------------------------------------------------- Suggest
\* a title as pieces: its words with a space between them
TitlePieces(title) ==
    LET w == Analyze(title)
    IN  [k \in 1..(IF Len(w) = 0 THEN 0 ELSE 2 * Len(w) - 1) |->
            IF k % 2 = 1 THEN w[(k + 1) \div 2] ELSE " "]

\* q occurs in text as a run of consecutive pieces
Contains(text, q) ==
    \E i \in 1..(Len(text) - Len(q) + 1) :
        \A k \in 1..Len(q) : text[i + k - 1] = q[k]

\* text ILIKE pat, both as pieces: the piece "%" of a pattern stands for any run
\* of pieces, every other piece for itself (texts are compared lower-cased)
RECURSIVE ILike(_, _)
ILike(text, pat) ==
    IF pat = <<>> THEN text = <<>>
    ELSE IF Head(pat) = "%"
         THEN \E k \in 0..Len(text) : ILike(SubSeq(text, k + 1, Len(text)), Tail(pat))
         ELSE /\ text # <<>>
              /\ Head(text) = Head(pat)
              /\ ILike(Tail(text), Tail(pat))

\* the words of a query in order
QueryTokens(q) == SelectSeq(q, LAMBDA x : x # " ")

SuggestLimits == {-1, 0, 1, 10}
SuggestRequests ==
    {[query |-> q, limit |-> 10] : q \in Queries \cup {<<"%">>}}
    \cup {[query |-> <<"go">>, limit |-> l] : l \in SuggestLimits}

SuggestCalls ==
    {[req |-> r, fail |-> "none"] : r \in SuggestRequests}
    \cup {[req |-> [query |-> <<"go">>, limit |-> 0], fail |-> "query"]}

\* SELECT title, COUNT(*) FROM search_index WHERE title ILIKE %query%
\* GROUP BY title ORDER BY count DESC LIMIT limit
PgSuggest(tbl, req, fail, ord) ==
    LET limit == IF req.limit <= 0 THEN 10 ELSE req.limit
        likePattern == <<"%">> \o req.query \o <<"%">>
        titles == {r.title : r \in {x \in tbl : ILike(TitlePieces(x.title), likePattern)}}
        count(t) == Cardinality({r \in tbl : r.title = t})
        pos(t) == CHOOSE k \in 1..Len(ord) : ord[k] = t
        sorted == CHOOSE f \in Orderings(titles) :
                    \A i, j \in 1..Cardinality(titles) :
                        i < j => \/ count(f[i]) > count(f[j])
                                 \/ count(f[i]) = count(f[j]) /\ pos(f[i]) < pos(f[j])
        rows == [k \in 1..Cardinality(titles) |-> [text |-> sorted[k], count |-> count(sorted[k])]]
    IN  IF fail # "none"
        THEN [err |-> "failed to get suggestions", suggestions |-> <<>>]
        ELSE [err |-> "", suggestions |-> Page(rows, limit, 0)]

\* match_phrase_prefix on title, size = limit; one suggestion per distinct
\* title among the hits, each with count 1
EsSuggest(docs, req, fail, ord) ==
    LET title(id) == (CHOOSE d \in BagToSet(docs) : d._id = id).source.title
        hitIds == {d._id : d \in {x \in BagToSet(docs) :
                        /\ QueryTokens(req.query) # <<>>
                        /\ Contains(Analyze(x.source.title), QueryTokens(req.query))}}
        hits == Page(Keep(ord, hitIds), req.limit, 0)
        firsts == SelectSeq([k \in 1..Len(hits) |-> k],
                            LAMBDA k : \A j \in 1..(k - 1) : title(hits[j]) # title(hits[k]))
    IN  IF fail # "none"
        THEN [err |-> "elasticsearch suggest failed", suggestions |-> <<>>]
        ELSE [err |-> "",
              suggestions |-> [i \in 1..Len(firsts) |->
                                [text |-> title(hits[firsts[i]]), count |-> 1]]]

\* what the result order of a Suggest is chosen over: titles or document ids
SuggestKeys ==
    IF backend = "postgres" THEN {r.title : r \in pgIndex}
    ELSE {d._id : d \in BagToSet(esVisible)}

RepoSuggest(req, fail, ord) ==
    IF backend = "postgres" THEN PgSuggest(pgIndex, req, fail, ord)
    ELSE EsSuggest(esVisible, req, fail, ord)

\* a facade that passes the limit on as it came
SuggestDefaultsNone(req) == req

\* "Set defaults"
SuggestDefaults(req) == [req EXCEPT !.limit = IF @ <= 0 THEN 10 ELSE @]

SuggestInvalid(req) == req.query = <<>>

SuggestService(req, fail, ord) ==
    IF SuggestInvalid(req)
    THEN [op |-> "suggest", req |-> req, calls |-> <<>>, resp |-> NoResponse,
          err |-> BusinessError("INVALID_SUGGEST_QUERY", "Suggest query cannot be empty"),
          adapterErr |-> "", matched |-> {}]
    ELSE LET n == SuggestDefaults(req)
             a == RepoSuggest(n, fail, ord)
         IN  IF a.err # ""
             THEN [op |-> "suggest", req |-> req, calls |-> <<n>>, resp |-> NoResponse,
                   err |-> Wrap("suggest failed", a.err),
                   adapterErr |-> a.err, matched |-> {}]
             ELSE [op |-> "suggest", req |-> req, calls |-> <<n>>,
                   resp |-> [suggestions |-> a.suggestions, query |-> n.query],
                   err |-> NoError, adapterErr |-> "", matched |-> {}]

Suggest ==
    \E c \in SuggestCalls : \E ord \in Orderings(SuggestKeys) :
        /\ backend = "postgres" => pgLock = 0
        /\ sr' = SuggestService(c.req, c.fail, ord)
        /\ last' = NoCall
        /\ UNCHANGED <<backend, media, nWrites, pgIndex, pgLock, esDocs, esVisible, rx>>

\* --------------------------------------------------------- specifications
NextSearch ==
    \/ CreateUploadURL
    \/ ConfirmUploaded
    \/ HandleMediaCreated
    \/ Search
    \/ Suggest

\* Search and Suggest against the index the Index Synchronizer maintains
SpecSearch == InitSync /\ [][NextSearch]_vars

\* a document left in the index by a record that is no longer in the store
StaleMedia == [id |-> 0, title |-> "Go Basics", description |-> "intro",
               type |-> TypeVideo, status |-> StatusReady]

InitialPg == PgIndexMedia({}, StaleMedia)
InitialEs == EsIndexMedia(EmptyBag, StaleMedia)

InitReindex ==
    /\ backend \in Backends
    /\ media = <<>>
    /\ nWrites = 0
    /\ pgIndex = InitialPg
    /\ pgLock = 0
    /\ esDocs = InitialEs
    /\ esVisible = esDocs
    /\ last = NoCall
    /\ rx = [p \in Procs |-> IdleRx]
    /\ sr = NoSearch

StartReindex == \E p \in Procs : Reindex(p)
DoFetchPage == \E p \in Procs : FetchPage(p)
DoPgTruncate == \E p \in Procs : PgTruncate(p)
DoPgInsert == \E p \in Procs : PgInsert(p)
DoPgCommit == \E p \in Procs : PgCommit(p)
DoEsClear == \E p \in Procs : EsClear(p)
DoEsBulk == \E p \in Procs : EsBulk(p)

NextReindex ==
    \/ CreateUploadURL
    \/ ConfirmUploaded
    \/ DeleteMedia
    \/ StartReindex
    \/ DoFetchPage
    \/ DoPgTruncate
    \/ DoPgInsert
    \/ DoPgCommit
    \/ DoEsClear
    \/ DoEsBulk
    \/ EsRefresh

\* concurrent Reindex invocations against a changing store
SpecReindex == InitReindex /\ [][NextReindex]_vars

InitScan ==
    /\ backend \in Backends
    /\ \E n \in 0..MaxScan : media = ScanStore(n)
    /\ nWrites = 0
    /\ pgIndex = InitialPg
    /\ pgLock = 0
    /\ esDocs = InitialEs
    /\ esVisible = esDocs
    /\ last = NoCall
    /\ rx = [p \in Procs |-> IdleRx]
    /\ sr = NoSearch

NextScan ==
    \/ Reindex(1)
    \/ Cancel(1)
    \/ FetchPage(1)
    \/ PgTruncate(1)
    \/ PgInsert(1)
    \/ PgCommit(1)
    \/ EsClear(1)
    \/ EsBulk(1)
    \/ EsRefresh

\* one Reindex invocation paging through a store of up to MaxScan records
SpecScan == InitScan /\ [][NextScan]_vars

\* a record is created while the invocation pages through the store
ScanCreateUploadURL ==
    /\ rx[1].pc = "fetch"
    /\ CreateMedia("Go Basics", "intro", TypeVideo, MaxScan + MaxWrites)

InitScanLive ==
    /\ backend \in Backends
    /\ \E n \in (MaxScan - 2)..(MaxScan - 1) : media = ScanStore(n)
    /\ nWrites = 0
    /\ pgIndex = InitialPg
    /\ pgLock = 0
    /\ esDocs = InitialEs
    /\ esVisible = esDocs
    /\ last = NoCall
    /\ rx = [p \in Procs |-> IdleRx]
    /\ sr = NoSearch

\* the newest record is deleted while the invocation pages through the store
ScanDeleteMedia ==
    /\ rx[1].pc = "fetch"
    /\ LiveRows(media) # <<>>
    /\ nWrites < MaxWrites
    /\ media' = RepoDelete(media, LiveRows(media)[Len(LiveRows(media))].m.id)
    /\ nWrites' = nWrites + 1
    /\ last' = NoCall
    /\ sr' = NoSearch
    /\ UNCHANGED <<backend, pgIndex, pgLock, esDocs, esVisible, rx>>

NextScanLive ==
    \/ ScanCreateUploadURL
    \/ ScanDeleteMedia
    \/ NextScan

\* one Reindex invocation paging through a store that grows meanwhile
SpecScanLive == InitScanLive /\ [][NextScanLive]_vars

NextReindexSync ==
    \/ CreateUploadURL
    \/ ConfirmUploaded
    \/ HandleMediaCreated
    \/ NextScan

\* one Reindex invocation while the store is written and its events are applied
SpecReindexSync == InitReindex /\ [][NextReindexSync]_vars

NextScanAny ==
    \/ Reindex(1)
    \/ Cancel(1)
    \/ FetchPageAny(1)
    \/ PgTruncate(1)
    \/ PgInsert(1)
    \/ PgCommit(1)
    \/ EsClear(1)
    \/ EsBulk(1)
    \/ EsRefresh

\* one Reindex invocation against a metadata API that answers anything
SpecScanAny == InitReindex /\ [][NextScanAny]_vars

\* ------------------------------------------ the two adapters, call by call
\* PostgresSearchRepository.ReindexAll as one call on a store that does not fail:
\* TRUNCATE, one Create per item, Commit; a Create the primary key refuses rolls
\* the transaction back
PgReindexAll(tbl, list) ==
    IF \E i, j \in 1..Len(list) : i < j /\ list[i].id = list[j].id
    THEN [err |-> TRUE, tbl |-> tbl]
    ELSE [err |-> FALSE, tbl |-> {SearchIndexRow(list[k]) : k \in 1..Len(list)}]

\* ElasticsearchSearchRepository.ReindexAll as one call on an engine that does
\* not fail: ClearIndex, then one bulk request unless the list is empty
EsReindexAll(docs, list) ==
    IF Len(list) = 0
    THEN [err |-> FALSE, docs |-> ClearIndex(docs)]
    ELSE [err |-> FALSE, docs |-> BulkIndex(ClearIndex(docs), list, {})]

\* the same IndexMedia call on both adapters
BothIndexMedia ==
    \E id \in 1..MaxMedia, t \in Titles, d \in Descriptions, ty \in Types :
        /\ pgIndex' = PgIndexMedia(pgIndex, ToMedia(id, t, d, ty))
        /\ esDocs' = EsIndexMedia(esDocs, ToMedia(id, t, d, ty))
        /\ esVisible' = esDocs'
        /\ last' = [op |-> "both", call |-> "IndexMedia", pgErr |-> FALSE, esErr |-> FALSE]
        /\ sr' = NoSearch
        /\ UNCHANGED <<backend, media, nWrites, pgLock, rx>>

\* the same RemoveFromIndex call on both adapters
BothRemoveFromIndex ==
    \E id \in 1..MaxMedia :
        /\ pgIndex' = PgRemoveFromIndex(pgIndex, id)
        /\ esDocs' = IF DeleteDocumentError(DeleteStatus(esDocs, id, TRUE))
                     THEN esDocs ELSE EsRemoveFromIndex(esDocs, id)
        /\ esVisible' = esDocs'
        /\ last' = [op |-> "both", call |-> "RemoveFromIndex", pgErr |-> FALSE,
                    esErr |-> DeleteDocumentError(DeleteStatus(esDocs, id, TRUE))]
        /\ sr' = NoSearch
        /\ UNCHANGED <<backend, media, nWrites, pgLock, rx>>

\* the same ReindexAll call on both adapters: any list of up to MaxMedia items
BothReindexAll ==
    \E n \in 0..MaxMedia :
        \E ids \in [1..n -> 1..MaxMedia], ts \in [1..n -> Titles] :
            LET list == [k \in 1..n |-> ToMedia(ids[k], ts[k], "intro", TypeVideo)]
            IN  /\ pgIndex' = PgReindexAll(pgIndex, list).tbl
                /\ esDocs' = EsReindexAll(esDocs, list).docs
                /\ esVisible' = esDocs'
                /\ last' = [op |-> "both", call |-> "ReindexAll",
                            pgErr |-> PgReindexAll(pgIndex, list).err,
                            esErr |-> EsReindexAll(esDocs, list).err]
                /\ sr' = NoSearch
                /\ UNCHANGED <<backend, media, nWrites, pgLock, rx>>

NextBoth ==
    \/ BothIndexMedia
    \/ BothRemoveFromIndex
    \/ BothReindexAll

\* the same sequence of calls applied to the two adapters side by side
SpecBoth == InitSync /\ [][NextBoth]_vars

\* ------------------------------------------------------------- the claims
MediaIds(list) == {list[k].id : k \in 1..Len(list)}

\* the invocation has gone past the scan without a failed fetch
ScanFinished(r) ==
    r.pc \in {"replace", "tx", "bulk"} \/ (r.pc = "done" /\ ~r.fetchFailed)

\* C1: when a page fetch or a response parse fails, also by cancellation with
\* pages remaining, Reindex returns an error, ReindexAll is never called and
\* the index holds the documents it held before the call.
C1_FetchFailureAborts ==
    \A p \in Procs :
        rx[p].fetchFailed =>
            /\ rx[p].pc = "done"
            /\ rx[p].err # ""
            /\ rx[p].resp.status = 500
            /\ rx[p].reindexAllCalls = 0
            /\ ~rx[p].cleared
            /\ pgLock = 0
            /\ pgIndex = InitialPg
            /\ esDocs = InitialEs

\* the second page fetch fails on a cancelled context while records remain
C1_Witness ==
    /\ rx[1].fetchFailed
    /\ rx[1].cancelled
    /\ rx[1].offset = batchSize
    /\ Len(rx[1].allMedia) = batchSize
    /\ GetTotal(media) > batchSize

\* C2: after a successful Reindex the index holds a document for a record
\* exactly when the record is ready; no record with another status is passed
\* to ReindexAll.
C2_OnlyReadyIndexed ==
    \A p \in Procs :
        (rx[p].pc = "done" /\ rx[p].err = "" /\ rx[p].rejected = {}) =>
            /\ \A k \in 1..Len(rx[p].allMedia) : CanBeSearched(rx[p].allMedia[k])
            /\ IndexIds = {media[k].m.id :
                            k \in {j \in 1..Len(media) :
                                    ~media[j].deleted /\ CanBeSearched(media[j].m)}}

\* C3: with the store unchanged during the scan, the list handed to ReindexAll
\* holds every record the list API serves exactly once, in page order, for
\* every record count.
C3_ScanComplete ==
    \A p \in Procs :
        ScanFinished(rx[p]) =>
            /\ rx[p].allMedia = GetAll(media, GetTotal(media), 0)
            /\ Cardinality(MediaIds(rx[p].allMedia)) = Len(rx[p].allMedia)
            /\ MediaIds(rx[p].allMedia) = LiveIds(media)

\* a scan of an exact multiple of the batch size, three fetches long
C3_Witness ==
    /\ rx[1].pc = "replace"
    /\ Len(rx[1].allMedia) = 2 * batchSize
    /\ rx[1].offset = 2 * batchSize

\* the store's record of an id is live and ready
Eligible(id) ==
    \E k \in 1..Len(media) :
        media[k].m.id = id /\ ~media[k].deleted /\ CanBeSearched(media[k].m)

\* the last step was a MediaEventHandler call
EventApplied == last.op \in {"created", "updated", "deleted"}

\* C4: after each lifecycle event the Index Synchronizer applies, a document
\* with the event's id is in the index exactly when the media record with
\* that id is ready and not deleted.
C4_IndexedIffReady ==
    (EventApplied /\ ~last.err) => (last.id \in IndexIds <=> Eligible(last.id))

\* C8: every handler call makes exactly one adapter call, without a retry, and
\* returns nil exactly when that call succeeded.
C8_OneCallErrorSurfaced ==
    EventApplied =>
        /\ Len(last.calls) = 1
        /\ last.calls[1] \in {"IndexMedia", "RemoveFromIndex"}
        /\ last.err <=> ~last.adapterOk

\* an update event whose adapter call failed: the handler returned the error
C8_Witness ==
    /\ last.op = "updated"
    /\ ~last.adapterOk
    /\ last.err

\* C9: for a created or updated event whose record is not ready the handler
\* calls RemoveFromIndex for the id and does not call IndexMedia.
C9_NonReadyDeletes ==
    (last.op \in {"created", "updated"} /\ ~Eligible(last.id)) =>
        last.calls = <<"RemoveFromIndex">>

\* every document under another id is the same in both indexes
SameOthersPg(a, b, id) == {r \in a : r.id # id} = {r \in b : r.id # id}
SameOthersEs(a, b, id) == EsWithoutId(a, id) = EsWithoutId(b, id)

\* C10: for both adapters, IndexMedia(d) twice leaves the index as IndexMedia(d)
\* once does: one document under d's id, every other document unchanged.
C10_UpsertIdempotent ==
    /\ \A k \in 1..Len(media) :
        LET m == media[k].m
            pg1 == PgIndexMedia(pgIndex, m)
            pg2 == PgIndexMedia(pg1, m)
            es1 == EsIndexMedia(esDocs, m)
            es2 == EsIndexMedia(es1, m)
        IN  /\ pg2 = pg1
            /\ Cardinality({r \in pg2 : r.id = m.id}) = 1
            /\ SameOthersPg(pgIndex, pg2, m.id)
            /\ es2 = es1
            /\ BagCardinality([d \in EsWithId(es2, m.id) |-> es2[d]]) = 1
            /\ SameOthersEs(esDocs, es2, m.id)
    /\ (last.op \in {"created", "updated"} /\ ~last.err) => IndexCount(last.id) = 1
    /\ \A id \in IndexIds : IndexCount(id) = 1

\* the same document was upserted again while another document is indexed
C10_Witness ==
    /\ last.op = "updated"
    /\ ~last.err
    /\ last.repeat
    /\ IndexCount(last.id) = 1
    /\ Cardinality(IndexIds) = 2

\* the committed search_index is the set it was at the start or the complete
\* set of an invocation that committed
CompleteSets ==
    {InitialPg} \cup
    {{SearchIndexRow(rx[p].allMedia[k]) : k \in 1..Len(rx[p].allMedia)} :
        p \in {q \in Procs : rx[q].pc = "done" /\ rx[q].err = ""}}

\* a step in which an invocation's ReindexAll returns an error
ReindexAllFails(p) ==
    /\ rx[p].pc \in {"replace", "tx"}
    /\ rx'[p].pc = "done"
    /\ rx'[p].err # ""

\* C5: PostgresSearchRepository.ReindexAll is all-or-nothing: a failed
\* truncate, insert or commit leaves the index as it was, and no reader sees a
\* state that is neither the complete old set nor a complete new set.
C5_AllOrNothing ==
    /\ [](backend = "postgres" => pgIndex \in CompleteSets)
    /\ [][backend = "postgres" =>
            /\ \A p \in Procs : ReindexAllFails(p) => pgIndex' = pgIndex
            /\ pgLock # 0 /\ pgIndex' # pgIndex =>
                    /\ rx[pgLock].pc = "tx"
                    /\ rx'[pgLock].pc = "done"
                    /\ rx'[pgLock].err = ""]_vars

\* an insert or the commit failed after rows were written in the transaction
\* and the index still holds the old document
C5_Witness ==
    /\ backend = "postgres"
    /\ \E p \in Procs :
        /\ rx[p].pc = "done"
        /\ rx[p].err \in {"failed to index media", "commit failed"}
        /\ rx[p].i > 1
    /\ pgIndex = InitialPg

\* the outcome kind a client of POST /search/reindex can tell apart
ResultKind(resp) == <<resp.status, resp.error, resp.message>>

\* the delete-all succeeded and the bulk insert failed
PartialFailure(r) ==
    r.pc = "done" /\ r.cleared /\ r.err = "failed to bulk index media"

\* the invocation failed and left the index untouched
UntouchedFailure(r) ==
    r.pc = "done" /\ ~r.cleared /\ r.err # ""

\* C6: a bulk-insert failure after a successful delete-all is reported as a
\* result distinct from the error reported when the index was left untouched.
C6_PartialDistinct ==
    \A p, q \in Procs :
        (backend = "elasticsearch" /\ PartialFailure(rx[p]) /\ UntouchedFailure(rx[q]))
            => ResultKind(rx[p].resp) # ResultKind(rx[q].resp)

EsIds(docs) == {d._id : d \in BagToSet(docs)}

\* C7: when an invocation's bulk insert lands while the other invocation has
\* run its delete-all and not yet its bulk insert, and both succeed, the index
\* ends as the union of the two scanned sets.
C7_RaceGivesUnion ==
    [][\A p, q \in Procs :
        ( /\ backend = "elasticsearch"
          /\ p # q
          /\ rx[p].pc = "bulk"
          /\ rx'[p].pc = "done" /\ rx'[p].err = "" /\ rx'[p].rejected = {}
          /\ rx[q].pc = "done" /\ rx[q].err = "" /\ rx[q].rejected = {}
          /\ rx[q].allMedia # <<>>
          /\ EsIds(esDocs) = MediaIds(rx[q].allMedia) )
        => EsIds(esDocs') = MediaIds(rx[p].allMedia) \cup MediaIds(rx[q].allMedia)]_vars

\* both invocations returned success and the index is the union of their two
\* different scans, the scan of neither
C7_Witness ==
    /\ backend = "elasticsearch"
    /\ \A p \in Procs : rx[p].pc = "done" /\ rx[p].err = "" /\ rx[p].rejected = {}
    /\ EsIds(esDocs) = MediaIds(rx[1].allMedia) \cup MediaIds(rx[2].allMedia)
    /\ EsIds(esDocs) # MediaIds(rx[1].allMedia)
    /\ EsIds(esDocs) # MediaIds(rx[2].allMedia)

\* C11: for both adapters, RemoveFromIndex of an id that is not in the index
\* returns no error and changes no document, and RemoveFromIndex applied twice
\* leaves the index that one application leaves.
C11_DeleteIdempotent ==
    /\ \A id \in 0..(MaxMedia + 1) :
        LET pg1 == PgRemoveFromIndex(pgIndex, id)
            pg2 == PgRemoveFromIndex(pg1, id)
            es1 == EsRemoveFromIndex(esDocs, id)
            es2 == EsRemoveFromIndex(es1, id)
        IN  /\ pg2 = pg1
            /\ SameOthersPg(pgIndex, pg1, id)
            /\ (~\E r \in pgIndex : r.media_id = id) => pg1 = pgIndex
            /\ es2 = es1
            /\ SameOthersEs(esDocs, es1, id)
            /\ EsWithId(esDocs, id) = {} =>
                    /\ es1 = esDocs
                    /\ ~DeleteDocumentError(DeleteStatus(esDocs, id, TRUE))
            /\ ~DeleteDocumentError(DeleteStatus(es1, id, TRUE))
    /\ (last.op = "deleted" /\ ~last.err) => last.id \notin IndexIds
    /\ (last.op = "deleted" /\ last.err) => ~last.adapterOk

\* a deleted event was applied again for an id no longer in the index, while
\* another document is indexed: no error, the other document still there
C11_Witness ==
    /\ last.op = "deleted"
    /\ last.repeat
    /\ ~last.err
    /\ IndexIds # {}

\* C12: with the Elasticsearch adapter, a document for which IndexMedia has
\* returned success is seen by every later Search whose query matches it: it
\* is searchable when IndexMedia returns.
C12_UpsertVisible ==
    /\ (backend = "elasticsearch" /\ last.op \in {"created", "updated"} /\ ~last.err) =>
            \E d \in BagToSet(esVisible) :
                d._id = last.id /\ d \in BagToSet(esDocs)
    /\ (backend = "elasticsearch" /\ sr.op = "search" /\ sr.err = NoError) =>
            /\ \A d \in BagToSet(esDocs) :
                    EsMatches(d.source, sr.calls[1]) => d._id \in sr.matched
            /\ sr.resp.total =
                    Cardinality({d \in BagToSet(esDocs) : EsMatches(d.source, sr.calls[1])})

\* a Search after two successful upserts finds both documents
C12_Witness ==
    /\ backend = "elasticsearch"
    /\ sr.op = "search"
    /\ sr.err = NoError
    /\ Cardinality(sr.matched) = 2
    /\ sr.resp.total = 2

\* C13: the safety stop of the Reindex scan uses the total reported by the first
\* page response: after a full page the scan goes on to the next fetch only while
\* the running offset does not exceed the total the page at offset 0 reported.
C13_StopUsesFirstTotal ==
    \A p \in Procs :
        (rx[p].pc = "fetch" /\ rx[p].offset > 0) => rx[p].offset <= rx[p].firstTotal

\* C13 as amended: the safety stop uses the total of the page response just
\* parsed: after a full page the scan goes on exactly while the running offset
\* does not exceed that total, and it stops after a short page.
C13_StopUsesCurrentTotal ==
    \A p \in Procs :
        /\ (rx[p].pc = "fetch" /\ rx[p].offset > 0) =>
                /\ rx[p].lastItems = batchSize
                /\ rx[p].offset <= rx[p].lastTotal
        /\ ScanFinished(rx[p]) =>
                \/ rx[p].lastItems < batchSize
                \/ rx[p].offset > rx[p].lastTotal

C13_Witness ==
    \E p \in Procs :
        /\ rx[p].pc = "fetch"
        /\ rx[p].offset > rx[p].firstTotal
        /\ rx[p].offset <= rx[p].lastTotal
        /\ rx[p].lastTotal # rx[p].firstTotal

\* C14: Search with the empty query string fails with the business error
\* INVALID_SEARCH_QUERY, returns no response and never calls the adapter, with
\* either backend.
C14_EmptyQueryRejected ==
    (sr.op = "search" /\ sr.req.query = <<>>) =>
        /\ sr.err = BusinessError("INVALID_SEARCH_QUERY", "Search query cannot be empty")
        /\ sr.resp = NoResponse
        /\ sr.calls = <<>>

C14_Witness ==
    /\ sr.op = "search" /\ sr.req.query = <<>> /\ sr.err.kind = "business"
    /\ backend = "postgres" /\ pgIndex # {}

\* C15: Search with a query that is empty after trimming (only spaces) fails
\* with the business error INVALID_SEARCH_QUERY and never reaches the adapter,
\* like the empty query.
C15_BlankQueryRejected ==
    (sr.op = "search" /\ \A k \in 1..Len(sr.req.query) : sr.req.query[k] = " ") =>
        /\ sr.err = BusinessError("INVALID_SEARCH_QUERY", "Search query cannot be empty")
        /\ sr.resp = NoResponse
        /\ sr.calls = <<>>

\* C16: Search normalises the paging before it delegates: limit <= 0 becomes
\* 20, offset < 0 becomes 0, other values pass unchanged; the adapter receives
\* the normalised values and the response echoes them.
C16_PagingNormalised ==
    (sr.op = "search" /\ Len(sr.calls) = 1) =>
        /\ sr.calls[1].limit = (IF sr.req.limit <= 0 THEN 20 ELSE sr.req.limit)
        /\ sr.calls[1].offset = (IF sr.req.offset < 0 THEN 0 ELSE sr.req.offset)
        /\ sr.calls[1].query = sr.req.query /\ sr.calls[1].type = sr.req.type
        /\ sr.err = NoError =>
                /\ sr.resp.limit = sr.calls[1].limit
                /\ sr.resp.offset = sr.calls[1].offset

C16_Witness ==
    /\ sr.op = "search" /\ sr.err = NoError
    /\ sr.req.limit = 0 /\ sr.req.offset = -1
    /\ sr.resp.limit = 20 /\ sr.resp.offset = 0
    /\ sr.resp.total > 0

\* C17: the page size of Search is bounded: a limit above MaxSearchLimit is
\* clamped, so the adapter is always called with 1 <= limit <= MaxSearchLimit.
C17_LimitClamped ==
    (sr.op = "search" /\ Len(sr.calls) = 1) =>
        /\ 1 <= sr.calls[1].limit
        /\ sr.calls[1].limit <= MaxSearchLimit

\* C18: for a Search with a non-empty query, total is the number of index
\* documents that match the query text and the type filter and whose media
\* record is ready, whatever limit and offset are.
C18_TotalCountsReady ==
    (sr.op = "search" /\ sr.req.query # <<>> /\ sr.err = NoError) =>
        sr.resp.total =
            Cardinality(MatchingIds([sr.calls[1] EXCEPT !.limit = 20, !.offset = 0])
                        \cap ReadyIds(media))

\* C19: for a Search with a non-empty query, the number of results returned is
\* at most the normalised page size the response echoes.
C19_PageBounded ==
    (sr.op = "search" /\ sr.req.query # <<>> /\ sr.err = NoError) =>
        Len(sr.resp.results) <= sr.resp.limit

C19_Witness ==
    /\ sr.op = "search" /\ sr.err = NoError
    /\ sr.resp.limit = 1 /\ sr.resp.total = 2 /\ Len(sr.resp.results) = 1

\* C20: when the adapter's Search or Suggest returns an error, the facade
\* returns no response and an error that wraps the adapter's error, whose
\* cause can be unwrapped, and that is not a business error.
C20_AdapterErrorWrapped ==
    (sr.op \in {"search", "suggest"} /\ sr.adapterErr # "") =>
        /\ sr.resp = NoResponse
        /\ sr.err.kind = "wrapped"
        /\ sr.err.cause = sr.adapterErr
        /\ sr.err.msg = (IF sr.op = "search" THEN "search failed: "
                                              ELSE "suggest failed: ") \o sr.adapterErr

C20_Witness ==
    /\ sr.op = "suggest" /\ sr.adapterErr = "elasticsearch suggest failed"
    /\ sr.err.cause = sr.adapterErr /\ esVisible # EmptyBag

\* C21: Suggest never calls the adapter with an empty query or a non-positive
\* limit: the empty query fails with INVALID_SUGGEST_QUERY and no response before
\* any adapter call, and a limit <= 0 is replaced by 10 before delegating.
C21_SuggestValidated ==
    sr.op = "suggest" =>
        /\ sr.req.query = <<>> =>
                /\ sr.err = BusinessError("INVALID_SUGGEST_QUERY",
                                          "Suggest query cannot be empty")
                /\ sr.resp = NoResponse
                /\ sr.calls = <<>>
        /\ sr.req.query # <<>> => Len(sr.calls) = 1
        /\ Len(sr.calls) = 1 =>
                /\ sr.calls[1].query = sr.req.query
                /\ sr.calls[1].query # <<>>
                /\ sr.calls[1].limit > 0
                /\ sr.calls[1].limit = (IF sr.req.limit <= 0 THEN 10 ELSE sr.req.limit)

C21_Witness ==
    /\ sr.op = "suggest" /\ sr.req.limit = -1 /\ Len(sr.calls) = 1
    /\ sr.calls[1].limit = 10 /\ sr.err = NoError
    /\ Len(sr.resp.suggestions) > 0

\* C22: Suggest of the PostgreSQL adapter returns at most limit suggestions, one
\* per distinct title that contains the query text (compared case-insensitively),
\* each with the number of index rows that have exactly that title as count,
\* ordered by count descending.
C22_PgSuggestByTitle ==
    (backend = "postgres" /\ sr.op = "suggest" /\ sr.err = NoError) =>
        LET sg == sr.resp.suggestions
            containing == {r.title : r \in {x \in pgIndex :
                                Contains(TitlePieces(x.title), sr.req.query)}}
        IN  /\ Len(sg) <= sr.calls[1].limit
            /\ \A i \in 1..Len(sg) :
                    /\ sg[i].text \in containing
                    /\ sg[i].count = Cardinality({r \in pgIndex : r.title = sg[i].text})
            /\ \A i, j \in 1..Len(sg) :
                    /\ i # j => sg[i].text # sg[j].text
                    /\ i < j => sg[i].count >= sg[j].count
            /\ Len(sg) = (IF Cardinality(containing) < sr.calls[1].limit
                          THEN Cardinality(containing) ELSE sr.calls[1].limit)

\* C23: ConfirmUpload moves a record to status ready only from status uploading:
\* for a record in any other status it returns the INVALID_STATUS business error
\* and leaves the status unchanged, and for an unknown id it returns the
\* not-found error and changes nothing.
C23_ConfirmOnlyFromUploading ==
    [][last'.op = "confirm" /\ last' # last =>
        IF last'.id \notin LiveIds(media)
        THEN last'.code = "media not found" /\ media' = media
        ELSE IF media[GetByID(media, last'.id)].m.status # StatusUploading
        THEN last'.code = "INVALID_STATUS" /\ media' = media
        ELSE \/ last'.code = "failed to update media status" /\ media' = media
             \/ /\ last'.code = ""
                /\ media'[GetByID(media, last'.id)].m.status = StatusReady
                /\ \A k \in 1..Len(media) :
                        k # GetByID(media, last'.id) => media'[k] = media[k]]_vars

C23_Witness ==
    /\ last.op = "confirm" /\ last.code = "INVALID_STATUS"
    /\ media[GetByID(media, last.id)].m.status = StatusFailed

\* C24: against a metadata API whose reported totals never exceed T, Reindex
\* issues at most floor(T / 100) + 1 page fetches before it calls ReindexAll or
\* returns an error, also when every page is a full page: with T the largest
\* total reported so far, the fetches made and the one still due stay within it.
C24_FetchBound ==
    \A p \in Procs :
        rx[p].fetches + (IF rx[p].pc = "fetch" THEN 1 ELSE 0)
            <= (rx[p].maxTotal \div batchSize) + 1

C24_Witness ==
    /\ rx[1].pc = "replace"
    /\ rx[1].lastItems = batchSize
    /\ rx[1].maxTotal = 2 * batchSize
    /\ rx[1].fetches = 3
    /\ Len(rx[1].allMedia) = 3 * batchSize

\* C25: when records are created or deleted in the store between the page
\* fetches of one Reindex, the list passed to ReindexAll holds no id twice and
\* omits no record that was in the store from the first fetch of the scan to
\* its end (the first item fetched is the newest record of that moment).
C25_ScanUnderWrites ==
    \A p \in Procs :
        (ScanFinished(rx[p]) /\ rx[p].allMedia # <<>>) =>
            /\ Cardinality(MediaIds(rx[p].allMedia)) = Len(rx[p].allMedia)
            /\ {id \in LiveIds(media) : id <= rx[p].allMedia[1].id}
                    \subseteq MediaIds(rx[p].allMedia)

\* C26: the two adapters are interchangeable: for every sequence of IndexMedia,
\* RemoveFromIndex and ReindexAll calls on stores that do not fail, a ReindexAll
\* list with a repeated id included, both return the same success or error for
\* each call and hold the same set of document ids after it.
C26_AdaptersAgree ==
    last.op = "both" =>
        /\ last.pgErr = last.esErr
        /\ {r.media_id : r \in pgIndex} = {d._id : d \in BagToSet(esDocs)}

\* C27: a document the Index Synchronizer upserted for a ready record while a
\* Reindex was between its page scan and its ReindexAll is in the index after
\* that Reindex has returned success.
C27_UpsertSurvivesReindex ==
    \A p \in Procs :
        (rx[p].pc = "done" /\ rx[p].err = "") =>
            \A id \in rx[p].upserted : id \in IndexIds

\* C28: when events for one media id are applied one after another, the index
\* entry of that id after the last event depends on that event only: after
\* created or updated it is present once with the event's title, description
\* and type and with content title + " " + description; after deleted it is
\* absent, whatever was applied before.
C28_LastEventWins ==
    /\ (last.op \in {"created", "updated"} /\ ~last.err) =>
            LET m == media[GetByID(media, last.id)].m
            IN  /\ IndexCount(last.id) = 1
                /\ IndexEntries(last.id) =
                        {[title |-> m.title, description |-> m.description,
                          content |-> m.title \o " " \o m.description,
                          type |-> m.type]}
    /\ (last.op = "deleted" /\ ~last.err) => IndexCount(last.id) = 0

\* an update event that replaced the entry an earlier event had written
C28_Witness ==
    /\ last.op = "updated" /\ ~last.err /\ ~last.repeat
    /\ media[GetByID(media, last.id)].m.title = "Go Advanced"
    /\ media[GetByID(media, last.id)].m.status = StatusReady
    /\ IndexCount(last.id) = 1
    /\ nWrites = MaxWrites

\* C29: when two Reindex invocations run concurrently on the PostgreSQL adapter
\* and both return success, the index is exactly the set of documents one of
\* the two scanned, never a mixture or the union of both.
C29_OneScanWins ==
    (backend = "postgres" /\ \A p \in Procs : rx[p].pc = "done" /\ rx[p].err = "") =>
        \E p \in Procs :
            pgIndex = {SearchIndexRow(rx[p].allMedia[k]) : k \in 1..Len(rx[p].allMedia)}

\* both succeeded on different scans, and the union would be a third set
C29_Witness ==
    /\ backend = "postgres"
    /\ \A p \in Procs : rx[p].pc = "done" /\ rx[p].err = ""
    /\ MediaIds(rx[1].allMedia) # MediaIds(rx[2].allMedia)
    /\ MediaIds(rx[1].allMedia) # {} /\ MediaIds(rx[2].allMedia) # {}
    /\ ~(MediaIds(rx[1].allMedia) \subseteq MediaIds(rx[2].allMedia))
    /\ pgIndex = {SearchIndexRow(rx[2].allMedia[k]) : k \in 1..Len(rx[2].allMedia)}

\* C30: when ReindexAll of the Elasticsearch adapter has returned success, the
\* index the next Search observes holds exactly the supplied documents: every
\* supplied id and no id from before the call, also for an empty list and when
\* the engine accepts the bulk request and rejects single items.
C30_BulkReplaceExact ==
    (backend = "elasticsearch" /\ rx[1].pc = "done" /\ rx[1].err = "") =>
        EsIds(esVisible) = MediaIds(rx[1].allMedia)

====
